---------------------------- MODULE Spec2Model ----------------------------
(***************************************************************************)
(* A model of src/entt/core/tuple.hpp: unwrap_tuple and forward_apply.     *)
(*                                                                         *)
(* A C++ type is modelled by its top-level cv-qualifiers and its reference *)
(* kind; the type traits, template argument deduction, std::forward,       *)
(* std::get and std::apply are modelled by what they do to such types.     *)
(* An object of the element type T carries a value; 0 is the value a       *)
(* moved-from T is left with.                                              *)
(***************************************************************************)
EXTENDS Integers, Sequences, FiniteSets

\* coll     the caller's tuple-like collection: element types and values
\* res      the result of the last unwrap_tuple call
\* use      what the caller did with that result
\* adapter  the forward_apply object: its callable's class and state
\* twin     a standalone copy of the callable, called directly
\* call     what the callable saw in the adapter's last invocation
\* out      how that invocation ended for the adapter's caller
\* deduced  the last use of the deduction guide
VARIABLES coll, res, use, adapter, twin, call, out, deduced

vars == <<coll, res, use, adapter, twin, call, out, deduced>>

\* Largest size of a tuple-like collection built by the caller.
MaxLen == 2

\* Largest number of state-changing calls made on one callable.
MaxCalls == 2

\* Values the caller stores in the elements (the spec's example uses 3, 4).
InputVals == {3, 4}

-----------------------------------------------------------------------------
(* Types and <type_traits>                                                 *)

Type(c, r) == [cv |-> c, ref |-> r]

T == Type({}, "none")

\* The element types std::tuple<...> is instantiated with.
ElemTypes ==
    { Type({}, "none"), Type({"const"}, "none"), Type({}, "lref"),
      Type({"const"}, "lref"), Type({}, "rref") }

remove_reference_t(t) == [t EXCEPT !.ref = "none"]

\* cv-qualifiers of a reference type are those of the referent: not top-level.
remove_cv_t(t) == IF t.ref = "none" THEN [t EXCEPT !.cv = {}] ELSE t

add_const_t(t) == IF t.ref = "none" THEN [t EXCEPT !.cv = @ \cup {"const"}] ELSE t

\* Reference collapsing: (X&)& = (X&&)& = X&, (X&)&& = X&, (X&&)&& = X&&.
add_lvalue_reference_t(t) == [t EXCEPT !.ref = "lref"]

add_rvalue_reference_t(t) == IF t.ref = "none" THEN [t EXCEPT !.ref = "rref"] ELSE t

IsConst(t) == "const" \in t.cv

\* A function call whose return type is t: an lvalue iff t is X&.
IsLvalue(t) == t.ref = "lref"

\* An expression a move constructor can bind to: a non-const rvalue.
IsMovable(t) == ~IsLvalue(t) /\ ~IsConst(t)

-----------------------------------------------------------------------------
(* The ways a caller passes a collection, as argument expressions.         *)

Hows == {"temporary", "mutable", "immutable"}

ArgExpr(h) ==
    CASE h = "temporary" -> [cv |-> {}, cat |-> "prvalue"]
      [] h = "mutable"   -> [cv |-> {}, cat |-> "lvalue"]
      [] OTHER           -> [cv |-> {"const"}, cat |-> "lvalue"]

\* Deduction of Type from `Type &&value`: X& for an lvalue, X for an rvalue.
DeduceForwarding(e) ==
    IF e.cat = "lvalue" THEN Type(e.cv, "lref") ELSE Type(e.cv, "none")

\* std::forward<Type>(value) is static_cast<Type &&>(value).
std_forward(t) == add_rvalue_reference_t(t)

\* The plain id-expression `value`: an lvalue of type remove_reference_t<Type>.
IdExpression(t) == add_lvalue_reference_t(remove_reference_t(t))

\* std::get<I>(tup) for element type e: e&, e&&, const e& or const e&&.
std_get(e, tup) ==
    LET q == IF IsConst(tup) THEN add_const_t(e) ELSE e
    IN  IF tup.ref = "lref" THEN add_lvalue_reference_t(q)
                            ELSE add_rvalue_reference_t(q)

-----------------------------------------------------------------------------
(* unwrap_tuple                                                            *)

\* Variant: the test written `>= 1u`.
UnwrapIsSingleAtLeastOne(n) == n >= 1

\* Variant: the test written `<= 1u` (not more than one element).
UnwrapIsSingleAtMostOne(n) == n <= 1

\* if constexpr(std::tuple_size_v<std::remove_reference_t<Type>> == 1u)
UnwrapIsSingle(n) == n = 1

\* Variant: `value` passed on without std::forward.
UnwrapForwardMissing(t) == IdExpression(t)

\* std::forward<Type>(value), in both branches.
UnwrapForward(t) == std_forward(t)

\* Variant: a return type of `auto`, which decays to a value.
UnwrapReturnAuto(t) == remove_cv_t(remove_reference_t(t))

\* decltype(auto) on `return <function call>;`: the call's return type as is.
UnwrapReturn(t) == t

NoRes ==
    [what |-> "none", how |-> "none", type |-> T, copy |-> FALSE,
     val |-> 0, vals |-> <<>>, pre |-> <<>>]

\* The result of unwrap_tuple(value), the collection c being passed the way h:
\* what it designates, its type, whether it is a new object (a copy), what is
\* read through it, and the collection's values when the call was made.
unwrap_tuple(c, h) ==
    LET ty  == DeduceForwarding(ArgExpr(h))
        n   == Len(c.decl)
        fwd == UnwrapForward(ty)
    IN  IF UnwrapIsSingle(n)
        THEN IF n = 0
             THEN \* std::get<0> of an empty tuple does not compile.
                  [NoRes EXCEPT !.what = "ill_formed", !.how = h, !.pre = c.val]
             ELSE LET rt == UnwrapReturn(std_get(c.decl[1], fwd))
                  IN  [what |-> "element", how |-> h, type |-> rt,
                       copy |-> rt.ref = "none", val |-> c.val[1],
                       vals |-> <<>>, pre |-> c.val]
        ELSE LET rt == UnwrapReturn(fwd)
             IN  [what |-> "collection", how |-> h, type |-> rt,
                  copy |-> rt.ref = "none", val |-> 0, vals |-> c.val,
                  pre |-> c.val]

-----------------------------------------------------------------------------
(* The wrapped callables: class types Func the adapter is instantiated     *)
(* with. Each takes any number of arguments.                               *)
(*   Sum      int operator()(T...) const          parameters by value      *)
(*   Counter  void operator()(auto &&...)         counts its calls         *)
(*   Both     int operator()(auto &&...) [const]  both forms; the          *)
(*            non-const one counts its calls                               *)
(*   Picky    operator()(auto &&...) const, noexcept and returning the     *)
(*            number of arguments when every argument is an lvalue,        *)
(*            throwing when one is an rvalue                               *)
(*   Thrower  operator()(auto &&...) const, always throws                  *)

Funcs == {"Sum", "Counter", "Both", "Picky", "Thrower"}

HasConstForm(f) == f \in {"Sum", "Both", "Picky", "Thrower"}

HasMutForm(f) == f \in {"Counter", "Both"}

TakesByValue(f) == f = "Sum"

\* Overload resolution of f(...) on a Func & ("mutable") or const Func &.
Overload(f, access) ==
    IF access = "mutable" /\ HasMutForm(f) THEN "mut"
    ELSE IF HasConstForm(f) THEN "const"
    ELSE "none"

RECURSIVE SumSeq(_)
SumSeq(s) == IF s = <<>> THEN 0 ELSE s[1] + SumSeq(Tail(s))

\* A value that depends on the position of every argument.
RECURSIVE Encode(_)
Encode(s) == IF s = <<>> THEN 0 ELSE 5 * Encode(SubSeq(s, 1, Len(s) - 1)) + s[Len(s)]

AllLvalues(types) == \A i \in DOMAIN types : IsLvalue(types[i])

\* Whether the overload selected for arguments of these types is noexcept.
FuncNothrow(f, types) == f = "Picky" /\ AllLvalues(types)

\* One call of the callable: the exception it throws if any, what it returns
\* (<<>>: no value) and the state it is left in.
FuncCall(f, form, state, args, types) ==
    CASE f = "Sum" ->
           [threw |-> "none", ret |-> <<SumSeq(args)>>, state |-> state]
      [] f = "Counter" ->
           [threw |-> "none", ret |-> <<>>, state |-> state + 1]
      [] f = "Both" ->
           [threw |-> "none", ret |-> <<Encode(args)>>,
            state |-> IF form = "mut" THEN state + 1 ELSE state]
      [] f = "Picky" ->
           IF AllLvalues(types)
           THEN [threw |-> "none", ret |-> <<Len(args)>>, state |-> state]
           ELSE [threw |-> "rvalue_error", ret |-> <<>>, state |-> state]
      [] OTHER ->
           [threw |-> "always_error", ret |-> <<>>, state |-> state]

\* How an argument of type t initialises the callable's parameter.
Xfer(f, t) ==
    IF ~TakesByValue(f) THEN "bind"
    ELSE IF IsMovable(t) THEN "move" ELSE "copy"

\* std::apply(f, tup): f(std::get<I>(tup)...), I = 0 .. size - 1.
std_apply(f, form, state, c, tup) ==
    LET n     == Len(c.decl)
        types == [i \in 1..n |-> std_get(c.decl[i], tup)]
        args  == [i \in 1..n |-> c.val[i]]
    IN  [args |-> args, types |-> types,
         xfer |-> [i \in 1..n |-> Xfer(f, types[i])],
         r |-> FuncCall(f, form, state, args, types)]

-----------------------------------------------------------------------------
(* forward_apply                                                           *)

NoAdapter == [func |-> "none", state |-> 0]

NoTwin == [func |-> "none", state |-> 0, kind |-> "none", ret |-> <<>>, exc |-> "none"]

NoCall ==
    [via |-> "none", how |-> "none", access |-> "none", form |-> "none",
     ncalls |-> 0, input |-> <<>>, args |-> <<>>, types |-> <<>>,
     xfer |-> <<>>, before |-> 0, ret |-> <<>>, threw |-> "none"]

NoOut == [kind |-> "none", ret |-> <<>>, exc |-> "none"]

NoDeduced ==
    [func |-> "none", decl |-> T, cat |-> "none", contained |-> T, state |-> 0]

\* The program runs until std::terminate is called.
Running == out.kind # "terminated"

\* Variant: operator() const calling through Func &.
ConstCallAccessCastAway == "mutable"

\* static_cast<Func &>(*this)
CallAccess == "mutable"

\* static_cast<const Func &>(*this)
ConstCallAccess == "const"

OperatorAccess(via) == IF via = "mutable" THEN CallAccess ELSE ConstCallAccess

\* Variant: `args` passed on without std::forward.
ApplyForwardMissing(t) == IdExpression(t)

\* std::forward<Type>(args), the second argument of std::apply.
ApplyForward(t) == std_forward(t)

\* Variant: the result of std::apply not returned.
ApplyReturnDropped(ret) == <<>>

\* return std::apply(...); with decltype(auto): what the callable returns.
ApplyReturn(ret) == ret

\* ENTT_NOEXCEPT_IF(noexcept(std::apply(std::declval<Func &>(), args))), and
\* the same with const Func &: std::apply is noexcept when the call it makes
\* is, and `args` is the parameter's name, an lvalue.
NoexceptSpec(f, c, ty) ==
    FuncNothrow(f, [i \in 1..Len(c.decl) |-> std_get(c.decl[i], IdExpression(ty))])

\* forward_apply<Func>::operator()(Type &&args), on a mutable adapter (via =
\* "mutable") or a read-only one (via = "const"): ill-formed when the callable
\* cannot be called through the reference; otherwise the call std::apply makes
\* and how the operator ends.
Invocation(via, f, state, c, h) ==
    LET ty     == DeduceForwarding(ArgExpr(h))
        access == OperatorAccess(via)
        form   == Overload(f, access)
        a      == std_apply(f, form, state, c, ApplyForward(ty))
    IN  IF form = "none"
        THEN [wellformed |-> FALSE]
        ELSE [wellformed |-> TRUE, access |-> access, form |-> form,
              args |-> a.args, types |-> a.types, xfer |-> a.xfer,
              calleeRet |-> a.r.ret, threw |-> a.r.threw, state |-> a.r.state,
              kind |-> IF a.r.threw = "none" THEN "returned"
                       ELSE IF NoexceptSpec(f, c, ty) THEN "terminated"
                       ELSE "threw",
              ret |-> IF a.r.threw = "none" THEN ApplyReturn(a.r.ret) ELSE <<>>,
              exc |-> IF a.r.threw # "none" /\ ~NoexceptSpec(f, c, ty)
                      THEN a.r.threw ELSE "none"]

\* The same callable called directly on the spread elements:
\* f(std::get<I>(std::forward<Type>(t))...), f a Func & or a const Func &.
DirectCall(via, f, state, c, h) ==
    LET tup   == std_forward(DeduceForwarding(ArgExpr(h)))
        types == [i \in 1..Len(c.decl) |-> std_get(c.decl[i], tup)]
        r     == FuncCall(f, Overload(f, via), state, c.val, types)
    IN  [func |-> f, state |-> r.state,
         kind |-> IF r.threw = "none" THEN "returned" ELSE "threw",
         ret |-> r.ret, exc |-> r.threw]

-----------------------------------------------------------------------------
(* The caller                                                              *)

Init ==
    /\ coll = [decl |-> <<>>, val |-> <<>>]
    /\ res = NoRes
    /\ use = [kind |-> "none", v |-> 0]
    /\ adapter = NoAdapter
    /\ twin = NoTwin
    /\ call = NoCall
    /\ out = NoOut
    /\ deduced = NoDeduced

\* The caller starts over with the empty collection, std::tuple<>{}.
NewTuple ==
    /\ Running
    /\ coll' = [decl |-> <<>>, val |-> <<>>]
    /\ res' = NoRes
    /\ use' = [kind |-> "none", v |-> 0]
    /\ call' = NoCall
    /\ out' = NoOut
    /\ UNCHANGED <<adapter, twin, deduced>>

\* The caller builds the collection with one more element, of type d and
\* value v, after the elements it has.
AddElement ==
    /\ Running
    /\ Len(coll.decl) < MaxLen
    /\ \E d \in ElemTypes, v \in InputVals :
         coll' = [decl |-> Append(coll.decl, d), val |-> Append(coll.val, v)]
    /\ res' = NoRes
    /\ use' = [kind |-> "none", v |-> 0]
    /\ call' = NoCall
    /\ out' = NoOut
    /\ UNCHANGED <<adapter, twin, deduced>>

\* unwrap_tuple(c), the collection passed as a temporary, a mutable or an
\* immutable reference.
CallUnwrap ==
    /\ \E h \in Hows : res' = unwrap_tuple(coll, h)
    /\ use' = [kind |-> "none", v |-> 0]
    /\ UNCHANGED <<coll, adapter, twin, call, out, deduced>>

\* The caller assigns v through the result (a non-const lvalue, or a new
\* object if the function returned one).
WriteThrough ==
    /\ res.what = "element"
    /\ use.kind = "none"
    /\ ~IsConst(res.type)
    /\ res.type.ref # "rref"
    /\ \E v \in InputVals :
         /\ use' = [kind |-> "write", v |-> v]
         /\ res' = [res EXCEPT !.val = v]
         /\ coll' = IF res.copy THEN coll ELSE [coll EXCEPT !.val[1] = v]
    /\ UNCHANGED <<adapter, twin, call, out, deduced>>

\* The caller constructs a T from the result: T x(unwrap_tuple(...)). The move
\* constructor is chosen for a non-const rvalue and leaves its source empty.
ConstructFrom ==
    /\ res.what = "element"
    /\ use.kind = "none"
    /\ IF IsMovable(res.type)
       THEN /\ use' = [kind |-> "move", v |-> res.val]
            /\ coll' = IF res.copy THEN coll ELSE [coll EXCEPT !.val[1] = 0]
       ELSE /\ use' = [kind |-> "copy", v |-> res.val]
            /\ coll' = coll
    /\ UNCHANGED <<res, adapter, twin, call, out, deduced>>

\* Variant: the guide written `forward_apply(Func &&)`.
GuideDeduceForwarding(e) == DeduceForwarding(e)

\* Deduction of Func from the guide's parameter, `forward_apply(Func)`: a
\* parameter taken by value drops the argument's top-level cv-qualifiers (an
\* expression has no reference type).
GuideDeduce(e) == remove_cv_t(Type(e.cv, "none"))

\* -> forward_apply<std::remove_reference_t<std::remove_cv_t<Func>>>
GuideContained(func) == remove_reference_t(remove_cv_t(func))

\* The expressions that name a callable value: a variable of the declared
\* type d (an lvalue, or an xvalue under std::move) or, for a non-reference
\* type, a temporary.
SourceTypes == {Type(c, r) : c \in SUBSET {"const", "volatile"}, r \in {"none", "lref", "rref"}}

SourceCats(d) == IF d.ref = "none" THEN {"lvalue", "xvalue", "prvalue"} ELSE {"lvalue", "xvalue"}

\* forward_apply fa{f}: the class template argument is deduced from the
\* callable value by the deduction guide, and the constructor then builds the
\* contained callable from the value.
DeduceConstruct ==
    /\ Running
    /\ \E f \in Funcs, d \in SourceTypes, s \in 0..MaxCalls :
         \E k \in SourceCats(d) :
            LET e == [cv |-> d.cv, cat |-> k]
            IN  /\ deduced' = [func |-> f, decl |-> d, cat |-> k,
                               contained |-> GuideContained(GuideDeduce(e)),
                               state |-> s]
                /\ adapter' = [func |-> f, state |-> s]
                /\ twin' = [NoTwin EXCEPT !.func = f, !.state = s]
    /\ call' = NoCall
    /\ out' = NoOut
    /\ UNCHANGED <<coll, res, use>>

\* forward_apply<Func> fa{f}: the constructor builds the contained callable
\* from its arguments, here a callable in its initial state. A standalone copy
\* of the same callable is kept beside it.
Construct ==
    /\ Running
    /\ \E f \in Funcs :
         /\ adapter' = [func |-> f, state |-> 0]
         /\ twin' = [NoTwin EXCEPT !.func = f]
    /\ call' = NoCall
    /\ out' = NoOut
    /\ UNCHANGED <<coll, res, use, deduced>>

\* fa(c) on a mutable or a read-only adapter, the collection passed the way h;
\* the standalone copy is called directly with the same elements.
Invoke ==
    /\ Running
    /\ adapter.func # "none"
    /\ adapter.state < MaxCalls
    /\ \E via \in {"mutable", "const"}, h \in Hows :
         \E iv \in {Invocation(via, adapter.func, adapter.state, coll, h)} :
             IF ~iv.wellformed
             THEN /\ call' = [NoCall EXCEPT !.via = via, !.how = h,
                                            !.before = adapter.state]
                  /\ out' = [NoOut EXCEPT !.kind = "ill_formed"]
                  /\ UNCHANGED <<coll, adapter, twin>>
             ELSE /\ call' = [via |-> via, how |-> h, access |-> iv.access,
                              form |-> iv.form, ncalls |-> 1,
                              input |-> coll.val, args |-> iv.args,
                              types |-> iv.types, xfer |-> iv.xfer,
                              before |-> adapter.state,
                              ret |-> iv.calleeRet, threw |-> iv.threw]
                  /\ out' = [kind |-> iv.kind, ret |-> iv.ret, exc |-> iv.exc]
                  /\ adapter' = [adapter EXCEPT !.state = iv.state]
                  /\ twin' = DirectCall(via, twin.func, twin.state, coll, h)
                  /\ coll' = [coll EXCEPT !.val =
                                [i \in 1..Len(coll.decl) |->
                                   IF iv.xfer[i] = "move" THEN 0 ELSE coll.val[i]]]
    /\ UNCHANGED <<res, use, deduced>>

NextUnwrap == NewTuple \/ AddElement \/ CallUnwrap \/ WriteThrough \/ ConstructFrom

SpecUnwrap == Init /\ [][NextUnwrap]_vars

NextApply == NewTuple \/ AddElement \/ Construct \/ Invoke

SpecApply == Init /\ [][NextApply]_vars

NextGuide == DeduceConstruct

SpecGuide == Init /\ [][NextGuide]_vars

-----------------------------------------------------------------------------
(* Properties of unwrap_tuple                                              *)

Unwrapped == res.what # "none"

Size == Len(coll.decl)

\* The reference to the collection as the caller passed it: an rvalue for a
\* temporary, a mutable or an immutable lvalue for a reference.
CategoryOfCollection(h) ==
    CASE h = "temporary" -> Type({}, "rref")
      [] h = "mutable"   -> Type({}, "lref")
      [] OTHER           -> Type({"const"}, "lref")

\* C2: for a collection of size 1, unwrap_tuple returns the element itself and
\* not a copy: the call leaves every element as it was, the value read through
\* the result is the element's, and a value written through the result is
\* the value the original collection's element then holds.
C2_UnwrapSingleIsElement ==
    (Unwrapped /\ Size = 1) =>
        /\ res.what = "element"
        /\ ~res.copy
        /\ use.kind = "none" => (coll.val = res.pre /\ res.val = coll.val[1])
        /\ use.kind = "write" => coll.val[1] = use.v

C2_Witness ==
    /\ Size = 1
    /\ res.how = "mutable"
    /\ use.kind = "write"
    /\ res.pre[1] # use.v
    /\ coll.val[1] = use.v

C4_Original ==
    (res.what = "element" /\ Size = 1) =>
        /\ res.type = CategoryOfCollection(res.how)
        /\ (res.how = "temporary" /\ use.kind \in {"move", "copy"})
              => use.kind = "move"

\* C4 as amended: the statement holds for an element held by value and not
\* const. Otherwise the result follows the element's own type: a const value
\* element is const whatever the collection (const T&& for a temporary, which
\* is copied from), a T& element yields T& and a const T& element const T&
\* however the collection is passed, and a T&& element yields T&& for a
\* temporary collection and T& for a mutable or immutable reference.
C4_UnwrapValueCategory ==
    (res.what = "element" /\ Size = 1) =>
        LET e == coll.decl[1]
            h == res.how
        IN  /\ e = Type({}, "none") =>
                 /\ res.type = CategoryOfCollection(h)
                 /\ (h = "temporary" /\ use.kind \in {"move", "copy"})
                       => use.kind = "move"
            /\ e = Type({"const"}, "none") =>
                 /\ res.type = Type({"const"},
                                    IF h = "temporary" THEN "rref" ELSE "lref")
                 /\ use.kind # "move"
            /\ e = Type({}, "lref") => res.type = Type({}, "lref")
            /\ e = Type({"const"}, "lref") => res.type = Type({"const"}, "lref")
            /\ e = Type({}, "rref") =>
                 res.type = Type({}, IF h = "temporary" THEN "rref" ELSE "lref")

C4_Witness ==
    /\ Size = 1
    /\ coll.decl[1] = Type({}, "none")
    /\ res.how = "temporary"
    /\ use.kind = "move"
    /\ coll.val[1] = 0

-----------------------------------------------------------------------------
(* Properties of forward_apply                                             *)

\* An invocation of the adapter that compiled and ran.
Invoked == call.via # "none" /\ out.kind # "ill_formed"

\* C1: invoking the adapter with a collection of n elements calls the
\* callable once with exactly n arguments, the i-th being the i-th element of
\* the collection, and when the callable returns, the adapter returns exactly
\* what it returned (no value included); Sum on (3, 4) yields 7, and on the
\* empty collection the callable is called with no argument.
C1_ApplySpreadsAndReturns ==
    Invoked =>
        /\ call.ncalls = 1
        /\ Len(call.args) = Len(coll.decl)
        /\ Len(call.types) = Len(coll.decl)
        /\ \A i \in 1..Len(coll.decl) : call.args[i] = call.input[i]
        /\ out.kind = "returned" => out.ret = call.ret
        /\ (out.kind = "returned" /\ adapter.func = "Sum" /\ call.input = <<3, 4>>)
              => out.ret = <<7>>
        /\ (out.kind = "returned" /\ adapter.func = "Counter") => out.ret = <<>>
        /\ Len(coll.decl) = 0 => call.args = <<>>

C1_Witness ==
    /\ Invoked
    /\ adapter.func = "Sum"
    /\ call.input = <<3, 4>>
    /\ out.kind = "returned"
    /\ out.ret = <<7>>

\* C5 as stated: however the collection is passed and for both invocations,
\* an element passed as a movable temporary (an element of type T&&) reaches
\* the callable as a movable temporary and is never copied, and an element
\* that is an lvalue reference reaches it as that reference.
C5_Original ==
    Invoked =>
        \A i \in 1..Len(coll.decl) :
            /\ coll.decl[i].ref = "rref" =>
                  (IsMovable(call.types[i]) /\ call.xfer[i] # "copy")
            /\ coll.decl[i].ref = "lref" => call.types[i] = coll.decl[i]

\* C5 as amended: for both invocations, an lvalue-reference element reaches
\* the callable as that reference however the collection is passed; when the
\* collection is passed as a temporary, a value or T&& element reaches the
\* callable as an rvalue (and, not const, is moved into a by-value parameter,
\* never copied); when the collection is passed by mutable or immutable
\* reference, a value or T&& element reaches the callable as an lvalue (const
\* for a value element of an immutable collection) and a by-value parameter
\* copies it.
C5_ApplyValueCategories ==
    Invoked =>
        \A i \in 1..Len(coll.decl) :
            LET e == coll.decl[i]
                t == call.types[i]
                h == call.how
            IN  /\ e.ref = "lref" => t = e
                /\ (e.ref # "lref" /\ h = "temporary") =>
                      /\ t = Type(e.cv, "rref")
                      /\ ~IsConst(e) => call.xfer[i] # "copy"
                /\ (e.ref = "rref" /\ h # "temporary") =>
                      /\ t = Type({}, "lref")
                      /\ call.xfer[i] # "move"
                /\ (e.ref = "none" /\ h = "mutable") =>
                      /\ t = Type(e.cv, "lref")
                      /\ call.xfer[i] # "move"
                /\ (e.ref = "none" /\ h = "immutable") =>
                      /\ t = Type({"const"}, "lref")
                      /\ call.xfer[i] # "move"

C5_Witness ==
    /\ Invoked
    /\ call.via = "const"
    /\ call.how = "temporary"
    /\ Len(coll.decl) = 2
    /\ coll.decl[1] = Type({}, "rref")
    /\ coll.decl[2] = Type({}, "lref")
    /\ call.xfer = <<"move", "copy">>
    /\ coll.val[1] = 0

\* C6: after any sequence of invocations the adapter cannot be told from a
\* standalone copy of its callable called directly with the same spread
\* arguments: it holds the callable it was built with, each invocation called
\* it once, it ended the way the direct call ended with the same value or
\* exception, and the contained callable's state is the standalone copy's.
C6_AdapterIsCallable ==
    /\ adapter.func = twin.func
    /\ Invoked =>
        /\ call.ncalls = 1
        /\ adapter.state = twin.state
        /\ out.kind = twin.kind
        /\ out.ret = twin.ret
        /\ out.exc = twin.exc

\* C7: whenever the contained callable throws during an invocation of the
\* adapter, mutable or read-only, that exception reaches the adapter's caller
\* unchanged; it is never turned into program termination.
C7_ExceptionPropagates ==
    (Invoked /\ call.threw # "none") =>
        /\ out.kind = "threw"
        /\ out.exc = call.threw

\* C8: a read-only invocation is performed only when the callable has a
\* read-only form, which is then the form invoked, and leaves the callable's
\* state unchanged; when the callable has none the invocation is rejected and
\* nothing is called; a mutable invocation calls the callable through a
\* mutable reference, in its mutable form when it has one.
C8_ReadOnlyInvocation ==
    call.via # "none" =>
        /\ call.via = "const" =>
              IF HasConstForm(adapter.func)
              THEN /\ out.kind # "ill_formed"
                   /\ call.access = "const"
                   /\ call.form = "const"
                   /\ adapter.state = call.before
              ELSE /\ out.kind = "ill_formed"
                   /\ call.ncalls = 0
                   /\ adapter.state = call.before
        /\ call.via = "mutable" =>
              /\ out.kind # "ill_formed"
              /\ call.access = "mutable"
              /\ HasMutForm(adapter.func) => call.form = "mut"

C8_Witness ==
    /\ call.via = "const"
    /\ adapter.func = "Both"
    /\ call.before > 0
    /\ out.kind = "returned"
    /\ call.form = "const"
    /\ adapter.state = call.before

\* C9: an adapter built from one callable value through the deduction guide
\* contains the value's type with references and top-level const and volatile
\* removed, a plain unqualified class type, whether the value is a named
\* (possibly qualified) callable or a temporary, and owns a callable in the
\* state of that value.
C9_GuideStripsQualifiers ==
    deduced.func # "none" =>
        /\ deduced.contained = remove_cv_t(remove_reference_t(deduced.decl))
        /\ deduced.contained = Type({}, "none")
        /\ adapter.func = deduced.func
        /\ adapter.state = deduced.state

C9_Witness ==
    /\ deduced.func = "Counter"
    /\ deduced.decl = Type({"const"}, "none")
    /\ deduced.cat = "lvalue"
    /\ deduced.contained = Type({}, "none")
    /\ adapter = [func |-> "Counter", state |-> 1]

=============================================================================
